---- MODULE Spec2Model ----
(***************************************************************************)
(* create-aiip.py: render an annotated image, embed a compressed JSON      *)
(* envelope as a private "aiip" chunk right after the PNG header chunk,    *)
(* and write the result to sample.aiip.                                    *)
(*                                                                         *)
(* Bytes are integers 0..255, byte strings are sequences of bytes, text is *)
(* a sequence of ASCII codes.  A 32-bit unsigned word is kept as its four  *)
(* bytes, most significant first, so that no value leaves TLC's integers.  *)
(***************************************************************************)
EXTENDS Integers, Sequences, FiniteSets, TLC

(***************************************************************************)
(* Bit and byte arithmetic used by zlib.crc32 / zlib.adler32.              *)
(***************************************************************************)
RECURSIVE XorBits(_, _, _)
XorBits(a, b, n) ==
    IF n = 0 THEN 0
    ELSE ((a + b) % 2) + 2 * XorBits(a \div 2, b \div 2, n - 1)

Xor4 == [a \in 0..15, b \in 0..15 |-> XorBits(a, b, 4)]

XorByte(a, b) == 16 * Xor4[a \div 16, b \div 16] + Xor4[a % 16, b % 16]

Xor32(u, v) ==
    << XorByte(u[1], v[1]), XorByte(u[2], v[2]),
       XorByte(u[3], v[3]), XorByte(u[4], v[4]) >>

ShiftR1(w) ==
    << w[1] \div 2,
       (w[2] \div 2) + 128 * (w[1] % 2),
       (w[3] \div 2) + 128 * (w[2] % 2),
       (w[4] \div 2) + 128 * (w[3] % 2) >>

\* The reflected CRC-32 polynomial 0xEDB88320 used by zlib and by PNG.
CrcPoly == <<237, 184, 131, 32>>

RECURSIVE CrcBits(_, _)
CrcBits(w, k) ==
    IF k = 0 THEN w
    ELSE CrcBits(IF w[4] % 2 = 1 THEN Xor32(CrcPoly, ShiftR1(w)) ELSE ShiftR1(w),
                 k - 1)

CrcTable == [n \in 0..255 |-> CrcBits(<<0, 0, 0, n>>, 8)]

CrcUpdate(w, d) ==
    LET t == CrcTable[XorByte(w[4], d)]
    IN  << t[1], XorByte(t[2], w[1]), XorByte(t[3], w[2]), XorByte(t[4], w[3]) >>

\* The register after bytes[lo..hi] have been fed, in order, to register w.
\* The range is split in halves and the left half is finished (its length
\* inspected) before the right half starts, so the evaluation stays
\* shallow; the bytes are still consumed left to right.
RECURSIVE CrcFold(_, _, _, _)
CrcFold(bytes, lo, hi, w) ==
    IF lo > hi THEN w
    ELSE IF lo = hi THEN CrcUpdate(w, bytes[lo])
    ELSE LET mid == (lo + hi) \div 2
             left == CrcFold(bytes, lo, mid, w)
         IN  IF Len(left) = 4 THEN CrcFold(bytes, mid + 1, hi, left) ELSE left

\* zlib.crc32(bytes) & 0xffffffff, as the four bytes of the 32-bit result.
zlib_crc32(bytes) ==
    Xor32(CrcFold(bytes, 1, Len(bytes), <<255, 255, 255, 255>>),
          <<255, 255, 255, 255>>)

\* struct.pack('>I', n): n as four bytes, most significant first.
struct_pack_I(n) ==
    << (n \div 16777216) % 256, (n \div 65536) % 256, (n \div 256) % 256, n % 256 >>

\* struct.unpack('>I', b)[0] for a 4-byte b.
struct_unpack_I(b) == ((b[1] * 256 + b[2]) * 256 + b[3]) * 256 + b[4]

(***************************************************************************)
(* zlib.compress / zlib.decompress.  The stream modelled is the zlib       *)
(* container (2-byte header, deflate data, big-endian Adler-32 of the      *)
(* plain bytes) holding one stored deflate block: a stream every zlib      *)
(* inflater accepts, whose length differs from the input's.                *)
(***************************************************************************)
\* The Adler-32 sums <<a, b>> after bytes[lo..hi], starting from ab.
RECURSIVE AdlerFold(_, _, _, _)
AdlerFold(bytes, lo, hi, ab) ==
    IF lo > hi THEN ab
    ELSE IF lo = hi
    THEN << (ab[1] + bytes[lo]) % 65521,
            (ab[2] + ((ab[1] + bytes[lo]) % 65521)) % 65521 >>
    ELSE LET mid == (lo + hi) \div 2
             left == AdlerFold(bytes, lo, mid, ab)
         IN  IF Len(left) = 2 THEN AdlerFold(bytes, mid + 1, hi, left) ELSE left

zlib_adler32(bytes) ==
    LET ab == AdlerFold(bytes, 1, Len(bytes), <<1, 0>>)
    IN  << ab[2] \div 256, ab[2] % 256, ab[1] \div 256, ab[1] % 256 >>

zlib_compress(plain) ==
    LET n == Len(plain)
    IN  <<120, 156>>
        \o <<1, n % 256, n \div 256, 255 - (n % 256), 255 - (n \div 256)>>
        \o plain
        \o zlib_adler32(plain)

(***************************************************************************)
(* Python values, as far as json.dumps distinguishes them.  Every value is *)
(* a record of one shape: t is the type, n an integer payload, s a text    *)
(* payload, keys/items the children.  "ref" stands for a container met a   *)
(* second time on the path from the root (a cyclic reference), "set" for a *)
(* type the encoder has no rule for.                                       *)
(***************************************************************************)
PyV(t, n, s, keys, items) == [t |-> t, n |-> n, s |-> s, keys |-> keys, items |-> items]
PyNone        == PyV("none", 0, <<>>, <<>>, <<>>)
PyBool(b)     == PyV("bool", IF b THEN 1 ELSE 0, <<>>, <<>>, <<>>)
PyInt(n)      == PyV("int", n, <<>>, <<>>, <<>>)
PyNaN         == PyV("nan", 0, <<>>, <<>>, <<>>)
PyInf         == PyV("inf", 0, <<>>, <<>>, <<>>)
PyNegInf      == PyV("ninf", 0, <<>>, <<>>, <<>>)
PyStr(s)      == PyV("str", 0, s, <<>>, <<>>)
PyList(xs)    == PyV("list", 0, <<>>, <<>>, xs)
PyTuple(xs)   == PyV("tuple", 0, <<>>, <<>>, xs)
PyDict(ks, xs) == PyV("dict", 0, <<>>, ks, xs)
PySet         == PyV("set", 0, <<>>, <<>>, <<>>)
PyRef         == PyV("ref", 0, <<>>, <<>>, <<>>)

RECURSIVE Digits(_)
Digits(n) == IF n < 10 THEN <<48 + n>> ELSE Digits(n \div 10) \o <<48 + (n % 10)>>

\* int.__repr__
IntRepr(n) == IF n < 0 THEN <<45>> \o Digits(-n) ELSE Digits(n)

\* json.encoder.py_encode_basestring_ascii on printable ASCII text:
\* '"' and '\' are escaped with a backslash, the rest is copied.
RECURSIVE EscapeRange(_, _, _)
EscapeRange(s, lo, hi) ==
    IF lo > hi THEN <<>>
    ELSE IF lo = hi
    THEN (IF s[lo] = 34 \/ s[lo] = 92 THEN <<92, s[lo]>> ELSE <<s[lo]>>)
    ELSE LET mid == (lo + hi) \div 2
         IN  EscapeRange(s, lo, mid) \o EscapeRange(s, mid + 1, hi)

EncodeStr(s) == <<34>> \o EscapeRange(s, 1, Len(s)) \o <<34>>

\* The text of a scalar: null, true/false, digits, NaN, Infinity, -Infinity.
ScalarText(v) ==
    CASE v.t = "none" -> <<110, 117, 108, 108>>
      [] v.t = "bool" -> IF v.n = 1 THEN <<116, 114, 117, 101>>
                         ELSE <<102, 97, 108, 115, 101>>
      [] v.t = "int"  -> IntRepr(v.n)
      [] v.t = "nan"  -> <<78, 97, 78>>
      [] v.t = "inf"  -> <<73, 110, 102, 105, 110, 105, 116, 121>>
      [] v.t = "ninf" -> <<45, 73, 110, 102, 105, 110, 105, 116, 121>>

ScalarTypes == {"none", "bool", "int", "nan", "inf", "ninf"}

\* A mapping key: text as is, any other scalar as the string of its text.
KeyText(k) == IF k.t = "str" THEN EncodeStr(k.s) ELSE <<34>> \o ScalarText(k) \o <<34>>

NonFiniteTypes == {"nan", "inf", "ninf"}

\* "none" when json.dumps(v) returns; otherwise the exception it raises:
\* ValueError for a circular reference, TypeError for a type or key it has
\* no rule for.  allow_nan is left at its default, so NaN and the
\* infinities are encoded, not rejected.
RECURSIVE DumpError(_)
RECURSIVE DumpErrorSeq(_, _, _)
DumpErrorSeq(keys, items, i) ==
    IF i > Len(items) THEN "none"
    ELSE IF Len(keys) > 0 /\ keys[i].t \notin (ScalarTypes \cup {"str"}) THEN "TypeError"
    ELSE LET e == DumpError(items[i])
         IN  IF e # "none" THEN e ELSE DumpErrorSeq(keys, items, i + 1)
DumpErrorNoNaN(v) ==
    CASE v.t = "ref" \/ v.t \in NonFiniteTypes -> "ValueError"
      [] v.t = "set" -> "TypeError"
      [] v.t \in {"list", "tuple", "dict"} -> DumpErrorSeq(v.keys, v.items, 1)
      [] OTHER -> "none"
DumpError(v) ==
    CASE v.t = "ref" -> "ValueError"
      [] v.t = "set" -> "TypeError"
      [] v.t \in {"list", "tuple", "dict"} -> DumpErrorSeq(v.keys, v.items, 1)
      [] OTHER -> "none"

\* json.dumps(v) with the default separators ", " and ": ".
RECURSIVE json_dumps(_)
RECURSIVE DumpItems(_, _, _, _)
\* The texts of items lo..hi, each after the first preceded by ", " and,
\* in a mapping, each preceded by its key and ": ".
DumpItems(keys, items, lo, hi) ==
    IF lo > hi THEN <<>>
    ELSE IF lo = hi
    THEN (IF lo > 1 THEN <<44, 32>> ELSE <<>>)
         \o (IF Len(keys) > 0 THEN KeyText(keys[lo]) \o <<58, 32>> ELSE <<>>)
         \o json_dumps(items[lo])
    ELSE LET mid == (lo + hi) \div 2
         IN  DumpItems(keys, items, lo, mid) \o DumpItems(keys, items, mid + 1, hi)
json_dumps(v) ==
    CASE v.t = "str" -> EncodeStr(v.s)
      [] v.t \in {"list", "tuple"} ->
            <<91>> \o DumpItems(<<>>, v.items, 1, Len(v.items)) \o <<93>>
      [] v.t = "dict" ->
            <<123>> \o DumpItems(v.keys, v.items, 1, Len(v.items)) \o <<125>>
      [] OTHER -> ScalarText(v)

(***************************************************************************)
(* embed_aiip_chunk, lines 169-191, on the encoded PNG bytes.              *)
(***************************************************************************)
\* b'aiip'
chunk_type == <<97, 105, 105, 112>>

\* chunk_data = bytes([0x01]) + compressed
ChunkDataTagLast(compressed) == compressed \o <<1>>
ChunkData(compressed) == <<1>> \o compressed

\* The bytes the CRC is taken over: chunk_type + chunk_data.
CrcInputWithLength(ctype, cdata) == struct_pack_I(Len(cdata)) \o ctype \o cdata
CrcInput(ctype, cdata) == ctype \o cdata

\* The value packed into the length field: len(chunk_data).
LengthFieldPayloadOnly(cdata) == Len(cdata) - 1
LengthField(cdata) == Len(cdata)

\* [length(4)][type(4)][data(n)][crc(4)]
BuildChunk(ctype, cdata) ==
    struct_pack_I(LengthField(cdata)) \o ctype \o cdata
    \o zlib_crc32(CrcInput(ctype, cdata))

\* Python's b[lo:hi] for 0 <= lo: both ends are clamped to len(b).
PySlice(b, lo, hi) ==
    LET h == IF hi > Len(b) THEN Len(b) ELSE hi
    IN  IF lo >= h THEN <<>> ELSE SubSeq(b, lo + 1, h)

\* insert_pos = 8 + 4 + 4 + ihdr_length + 4
InsertPosBeforeCrc(ihdr_length) == 8 + 4 + 4 + ihdr_length
InsertPos(ihdr_length) == 8 + 4 + 4 + ihdr_length + 4

\* png_bytes[8:12], the bytes struct.unpack('>I', ...) is given.
LengthFieldBytesShort(png) == PySlice(png, 8, 11)
LengthFieldBytes(png) == PySlice(png, 8, 12)

\* The outcome of lines 169-191 for encoded bytes png and metadata data:
\* err names the exception that leaves the function ("none": it returns
\* new_png).  json.dumps raises first (line 170); struct.unpack raises
\* struct.error at line 185 when png[8:12] holds fewer than 4 bytes.
embed_aiip_chunk(png, data) ==
    LET derr == DumpError(data)
        json_str == json_dumps(data)
        compressed == zlib_compress(json_str)
        chunk_data == ChunkData(compressed)
        chunk == BuildChunk(chunk_type, chunk_data)
        field == LengthFieldBytes(png)
        insert_pos == InsertPos(struct_unpack_I(field))
        none == [err |-> "none", json_str |-> <<>>, compressed |-> <<>>,
                 chunk |-> <<>>, new_png |-> <<>>]
    IN  IF derr # "none" THEN [none EXCEPT !.err = derr]
        ELSE IF Len(field) # 4
        THEN [none EXCEPT !.err = "struct.error", !.json_str = json_str,
                          !.compressed = compressed, !.chunk = chunk]
        ELSE [err |-> "none", json_str |-> json_str, compressed |-> compressed,
              chunk |-> chunk,
              new_png |-> PySlice(png, 0, insert_pos) \o chunk
                          \o PySlice(png, insert_pos, Len(png))]

(***************************************************************************)
(* PNG containers: the 8-byte signature followed by chunk records.         *)
(***************************************************************************)
PngSignature == <<137, 80, 78, 71, 13, 10, 26, 10>>
TypeIHDR == <<73, 72, 68, 82>>
TypeIDAT == <<73, 68, 65, 84>>
TypeIEND == <<73, 69, 78, 68>>

\* A well-formed chunk record as a PNG encoder writes it.
PngChunk(ctype, cdata) ==
    struct_pack_I(Len(cdata)) \o ctype \o cdata \o zlib_crc32(ctype \o cdata)

\* IHDR data of an 8-bit RGB image: width, height, depth 8, colour type 2.
IhdrData(w, h) == struct_pack_I(w) \o struct_pack_I(h) \o <<8, 2, 0, 0, 0>>

\* Signature and a complete first chunk record.
IsValidContainer(c) ==
    /\ Len(c) >= 20
    /\ SubSeq(c, 1, 8) = PngSignature
    /\ Len(c) >= 20 + struct_unpack_I(SubSeq(c, 9, 12))

(***************************************************************************)
(* The reader the format implies: find the "aiip" chunk, strip the method  *)
(* tag, inflate, decode the JSON text.  The repository only writes; this   *)
(* side follows the chunk layout and json.loads.                           *)
(***************************************************************************)
\* The plain bytes of a zlib stream holding one stored block, or the
\* failure of any of the checks an inflater makes on it.
zlib_decompress(z) ==
    LET n == z[4] + 256 * z[5]
    IN  IF /\ Len(z) >= 11
           /\ z[1] = 120 /\ z[2] = 156 /\ z[3] = 1
           /\ z[6] = 255 - z[4] /\ z[7] = 255 - z[5]
           /\ Len(z) = n + 11
           /\ SubSeq(z, n + 8, n + 11) = zlib_adler32(SubSeq(z, 8, n + 7))
        THEN [ok |-> TRUE, plain |-> SubSeq(z, 8, n + 7)]
        ELSE [ok |-> FALSE, plain |-> <<>>]

At(s, i) == IF i >= 1 /\ i <= Len(s) THEN s[i] ELSE 0

RECURSIVE SkipWs(_, _)
SkipWs(s, i) == IF At(s, i) = 32 THEN SkipWs(s, i + 1) ELSE i

\* The number of backslashes that end right before position j (from lo on).
RECURSIVE SlashRun(_, _, _)
SlashRun(s, lo, j) ==
    IF j - 1 >= lo /\ s[j - 1] = 92 THEN 1 + SlashRun(s, lo, j - 1) ELSE 0

\* Inside a string that starts at lo: position j is taken literally when an
\* odd run of backslashes ends right before it.
Escaped(s, lo, j) == SlashRun(s, lo, j) % 2 = 1

Least(S) == CHOOSE x \in S : \A y \in S : x <= y

ParseFail == [ok |-> FALSE, v |-> PyNone, i |-> 0]

\* A string whose opening quote is at i - 1.
ParseString(s, i) ==
    LET closing == {j \in i..Len(s) : s[j] = 34 /\ ~Escaped(s, i, j)}
    IN  IF closing = {} THEN ParseFail
        ELSE LET e == Least(closing)
                 Keep(j) == ~(s[j] = 92 /\ ~Escaped(s, i, j))
                 kept == SelectSeq([k \in 1..(e - i) |-> i + k - 1], Keep)
             IN  [ok |-> TRUE, v |-> PyStr([k \in 1..Len(kept) |-> s[kept[k]]]),
                  i |-> e + 1]

IsDigit(c) == c >= 48 /\ c <= 57

RECURSIVE DigitsValue(_, _, _)
DigitsValue(s, lo, hi) ==
    IF lo > hi THEN 0 ELSE 10 * DigitsValue(s, lo, hi - 1) + (s[hi] - 48)

\* An integer whose first digit is at i.
ParseDigits(s, i, sign) ==
    LET e == Least({j \in i..(Len(s) + 1) : ~IsDigit(At(s, j))})
    IN  IF e = i THEN ParseFail
        ELSE [ok |-> TRUE, v |-> PyInt(sign * DigitsValue(s, i, e - 1)), i |-> e]

Literal(s, i, word, v) ==
    IF SubSeq(s, i, i + Len(word) - 1) = word /\ i + Len(word) - 1 <= Len(s)
    THEN [ok |-> TRUE, v |-> v, i |-> i + Len(word)]
    ELSE ParseFail

\* json.loads: the value that starts at i and the position after it.
RECURSIVE ParseValue(_, _)
RECURSIVE ParseElems(_, _, _)
RECURSIVE ParseMembers(_, _, _, _)
ParseElems(s, i, acc) ==
    LET r == ParseValue(s, i)
    IN  IF ~r.ok THEN ParseFail
        ELSE LET j == SkipWs(s, r.i)
                 items == Append(acc, r.v)
             IN  IF At(s, j) = 44 /\ Len(items) > 0
                 THEN ParseElems(s, SkipWs(s, j + 1), items)
                 ELSE IF At(s, j) = 93
                 THEN [ok |-> TRUE, v |-> PyList(items), i |-> j + 1]
                 ELSE ParseFail
ParseMembers(s, i, ks, acc) ==
    IF At(s, i) # 34 THEN ParseFail
    ELSE LET k == ParseString(s, i + 1)
             c == SkipWs(s, k.i)
         IN  IF ~k.ok \/ At(s, c) # 58 THEN ParseFail
             ELSE LET r == ParseValue(s, SkipWs(s, c + 1))
                  IN  IF ~r.ok THEN ParseFail
                      ELSE LET j == SkipWs(s, r.i)
                               keys == Append(ks, k.v)
                               items == Append(acc, r.v)
                           IN  IF At(s, j) = 44 /\ Len(items) = Len(keys)
                               THEN ParseMembers(s, SkipWs(s, j + 1), keys, items)
                               ELSE IF At(s, j) = 125
                               THEN [ok |-> TRUE, v |-> PyDict(keys, items), i |-> j + 1]
                               ELSE ParseFail
ParseValue(s, i) ==
    LET c == At(s, i)
    IN  CASE c = 34 -> ParseString(s, i + 1)
          [] c = 91 -> IF At(s, SkipWs(s, i + 1)) = 93
                       THEN [ok |-> TRUE, v |-> PyList(<<>>), i |-> SkipWs(s, i + 1) + 1]
                       ELSE ParseElems(s, SkipWs(s, i + 1), <<>>)
          [] c = 123 -> IF At(s, SkipWs(s, i + 1)) = 125
                        THEN [ok |-> TRUE, v |-> PyDict(<<>>, <<>>),
                              i |-> SkipWs(s, i + 1) + 1]
                        ELSE ParseMembers(s, SkipWs(s, i + 1), <<>>, <<>>)
          [] c = 110 -> Literal(s, i, <<110, 117, 108, 108>>, PyNone)
          [] c = 116 -> Literal(s, i, <<116, 114, 117, 101>>, PyBool(TRUE))
          [] c = 102 -> Literal(s, i, <<102, 97, 108, 115, 101>>, PyBool(FALSE))
          [] c = 78 -> Literal(s, i, <<78, 97, 78>>, PyNaN)
          [] c = 73 -> Literal(s, i, <<73, 110, 102, 105, 110, 105, 116, 121>>, PyInf)
          [] c = 45 -> IF At(s, i + 1) = 73
                       THEN Literal(s, i + 1, <<73, 110, 102, 105, 110, 105, 116, 121>>,
                                    PyNegInf)
                       ELSE ParseDigits(s, i + 1, -1)
          [] IsDigit(c) -> ParseDigits(s, i, 1)
          [] OTHER -> ParseFail

json_loads(s) ==
    LET r == ParseValue(s, SkipWs(s, 1))
    IN  IF r.ok /\ SkipWs(s, r.i) = Len(s) + 1 THEN r ELSE ParseFail

(***************************************************************************)
(* The data of the source.  Text is spelled as ASCII codes; the comment on  *)
(* each line gives the text.                                               *)
(***************************************************************************)
WIDTH == 800
HEIGHT == 600

BG_COLOR == <<35, 49, 97, 51, 97, 53, 99>>  \* '#1a3a5c'

L_low == <<108, 111, 119>>  \* 'low'
L_medium == <<109, 101, 100, 105, 117, 109>>  \* 'medium'
L_high == <<104, 105, 103, 104>>  \* 'high'

REGION_COLORS ==
    [k \in {L_low, L_medium, L_high} |->
        CASE k = L_low    -> <<35, 50, 101, 99, 99, 55, 49>>   \* '#2ecc71'
          [] k = L_medium -> <<35, 102, 49, 99, 52, 48, 102>>  \* '#f1c40f'
          [] k = L_high   -> <<35, 101, 55, 52, 99, 51, 99>>]  \* '#e74c3c'

K_name == PyStr(<<110, 97, 109, 101>>)  \* "name"
K_tariff == PyStr(<<116, 97, 114, 105, 102, 102>>)  \* "tariff"
K_level == PyStr(<<108, 101, 118, 101, 108>>)  \* "level"
K_countries == PyStr(<<99, 111, 117, 110, 116, 114, 105, 101, 115>>)  \* "countries"
K_bounds == PyStr(<<98, 111, 117, 110, 100, 115>>)  \* "bounds"
K_rate == PyStr(<<114, 97, 116, 101>>)  \* "rate"
K_title == PyStr(<<116, 105, 116, 108, 101>>)  \* "title"
K_regions == PyStr(<<114, 101, 103, 105, 111, 110, 115>>)  \* "regions"
K_version == PyStr(<<118, 101, 114, 115, 105, 111, 110>>)  \* "version"
K_canvas == PyStr(<<99, 97, 110, 118, 97, 115>>)  \* "canvas"
K_width == PyStr(<<119, 105, 100, 116, 104>>)  \* "width"
K_height == PyStr(<<104, 101, 105, 103, 104, 116>>)  \* "height"
K_meta == PyStr(<<109, 101, 116, 97>>)  \* "meta"
K_author == PyStr(<<97, 117, 116, 104, 111, 114>>)  \* "author"
K_created == PyStr(<<99, 114, 101, 97, 116, 101, 100>>)  \* "created"
K_data == PyStr(<<100, 97, 116, 97>>)  \* "data"

\* DATA["regions"][0]
Region1 ==
    PyDict(<<K_name, K_tariff, K_level, K_countries, K_bounds>>,
      << PyStr(<<78, 111, 114, 116, 104, 32, 65, 109, 101, 114, 105, 99, 97>>),  \* "North America"
         PyStr(<<50, 53, 37>>),  \* "25%"
         PyStr(<<109, 101, 100, 105, 117, 109>>),  \* "medium"
         PyList(<<
           PyDict(<<K_name, K_rate>>,
                  << PyStr(<<67, 97, 110, 97, 100, 97>>),  \* "Canada"
                     PyStr(<<50, 53, 37>>) >>),  \* "25%"
           PyDict(<<K_name, K_rate>>,
                  << PyStr(<<77, 101, 120, 105, 99, 111>>),  \* "Mexico"
                     PyStr(<<50, 53, 37>>) >>)  \* "25%"
         >>),
         PyTuple(<<PyInt(50), PyInt(100), PyInt(250), PyInt(250)>>) >>)

\* DATA["regions"][1]
Region2 ==
    PyDict(<<K_name, K_tariff, K_level, K_countries, K_bounds>>,
      << PyStr(<<83, 111, 117, 116, 104, 32, 65, 109, 101, 114, 105, 99, 97>>),  \* "South America"
         PyStr(<<51, 53, 37>>),  \* "35%"
         PyStr(<<104, 105, 103, 104>>),  \* "high"
         PyList(<<
           PyDict(<<K_name, K_rate>>,
                  << PyStr(<<66, 114, 97, 122, 105, 108>>),  \* "Brazil"
                     PyStr(<<53, 48, 37>>) >>),  \* "50%"
           PyDict(<<K_name, K_rate>>,
                  << PyStr(<<65, 114, 103, 101, 110, 116, 105, 110, 97>>),  \* "Argentina"
                     PyStr(<<49, 53, 37>>) >>)  \* "15%"
         >>),
         PyTuple(<<PyInt(150), PyInt(280), PyInt(300), PyInt(450)>>) >>)

\* DATA["regions"][2]
Region3 ==
    PyDict(<<K_name, K_tariff, K_level, K_countries, K_bounds>>,
      << PyStr(<<69, 117, 114, 111, 112, 101>>),  \* "Europe"
         PyStr(<<49, 53, 37>>),  \* "15%"
         PyStr(<<108, 111, 119>>),  \* "low"
         PyList(<<
           PyDict(<<K_name, K_rate>>,
                  << PyStr(<<85, 75>>),  \* "UK"
                     PyStr(<<49, 48, 37>>) >>),  \* "10%"
           PyDict(<<K_name, K_rate>>,
                  << PyStr(<<69, 85>>),  \* "EU"
                     PyStr(<<50, 48, 37>>) >>),  \* "20%"
           PyDict(<<K_name, K_rate>>,
                  << PyStr(<<83, 119, 105, 116, 122, 101, 114, 108, 97, 110, 100>>),  \* "Switzerland"
                     PyStr(<<51, 57, 37>>) >>)  \* "39%"
         >>),
         PyTuple(<<PyInt(350), PyInt(80), PyInt(500), PyInt(220)>>) >>)

\* DATA["regions"][3]
Region4 ==
    PyDict(<<K_name, K_tariff, K_level, K_countries, K_bounds>>,
      << PyStr(<<65, 115, 105, 97>>),  \* "Asia"
         PyStr(<<51, 48, 37>>),  \* "30%"
         PyStr(<<104, 105, 103, 104>>),  \* "high"
         PyList(<<
           PyDict(<<K_name, K_rate>>,
                  << PyStr(<<67, 104, 105, 110, 97>>),  \* "China"
                     PyStr(<<51, 48, 37>>) >>),  \* "30%"
           PyDict(<<K_name, K_rate>>,
                  << PyStr(<<74, 97, 112, 97, 110>>),  \* "Japan"
                     PyStr(<<49, 53, 37>>) >>),  \* "15%"
           PyDict(<<K_name, K_rate>>,
                  << PyStr(<<73, 110, 100, 105, 97>>),  \* "India"
                     PyStr(<<53, 48, 37>>) >>)  \* "50%"
         >>),
         PyTuple(<<PyInt(520), PyInt(100), PyInt(750), PyInt(280)>>) >>)

\* DATA: the regions' bounds are tuples.
DATA ==
    PyDict(<<K_title, K_regions>>,
      << PyStr(<<85, 83, 32, 84, 114, 97, 100, 101, 32, 84, 97, 114, 105, 102, 102, 115, 32, 50, 48, 50, 53>>),  \* "US Trade Tariffs 2025"
         PyList(<<Region1, Region2, Region3, Region4>>) >>)

\* aiip_data, built in main().
aiip_data ==
    PyDict(<<K_version, K_canvas, K_meta, K_data>>,
      << PyStr(<<51, 46, 48>>),  \* "3.0"
         PyDict(<<K_width, K_height>>, <<PyInt(WIDTH), PyInt(HEIGHT)>>),
         PyDict(<<K_title, K_author, K_created>>,
                << DATA.items[1],  \* DATA["title"]
                   PyStr(<<97, 101, 122, 105, 32, 122, 104, 117>>),  \* "aezi zhu"
                   PyStr(<<50, 48, 50, 53, 45, 48, 49, 45, 48, 49>>) >>),  \* "2025-01-01"
         DATA >>)


(***************************************************************************)
(* The fill colour of a region, lines 118-119.                             *)
(***************************************************************************)
\* The value of one hexadecimal digit given as its ASCII code.
HexDigit(c) == IF c >= 97 THEN c - 87 ELSE IF c >= 65 THEN c - 55 ELSE c - 48

\* int(text[i:i+2], 16), i counted from 0 as in the source.
HexPair(text, i) == 16 * HexDigit(text[i + 1]) + HexDigit(text[i + 2])

\* int(c * 0.3 + int(BG_COLOR[1:3], 16) * 0.7): int() truncates, and the
\* background term is the red channel whichever channel c is.  With the red
\* channel 26 the double-precision sum truncates to the same integer as the
\* exact (3c + 7*26) / 10 for every c in 0..255.
BlendChannel(c) == (3 * c + 7 * HexPair(BG_COLOR, 1)) \div 10

fill_color(color) ==
    << BlendChannel(HexPair(color, 1)),
       BlendChannel(HexPair(color, 3)),
       BlendChannel(HexPair(color, 5)) >>

\* region["level"] of DATA["regions"][k - 1]
RegionLevel(k) == DATA.items[2].items[k].items[3].s

NumRegions == Len(DATA.items[2].items)

(***************************************************************************)
(* The reader's side of the chunk: an independent CRC-32, computed bit by  *)
(* bit, and the walk over the chunk records.                               *)
(***************************************************************************)
RECURSIVE BitwiseCrcFold(_, _, _, _)
BitwiseCrcFold(bytes, lo, hi, w) ==
    IF lo > hi THEN w
    ELSE IF lo = hi
    THEN CrcBits(<<w[1], w[2], w[3], XorByte(w[4], bytes[lo])>>, 8)
    ELSE LET mid == (lo + hi) \div 2
             left == BitwiseCrcFold(bytes, lo, mid, w)
         IN  IF Len(left) = 4 THEN BitwiseCrcFold(bytes, mid + 1, hi, left) ELSE left

ReaderCrc32(bytes) ==
    Xor32(BitwiseCrcFold(bytes, 1, Len(bytes), <<255, 255, 255, 255>>),
          <<255, 255, 255, 255>>)

\* The first chunk record of type ctype at or after offset pos.
RECURSIVE FindChunk(_, _, _)
FindChunk(c, pos, ctype) ==
    IF pos + 12 > Len(c) THEN [found |-> FALSE, cdata |-> <<>>, crc |-> <<>>]
    ELSE LET n == struct_unpack_I(SubSeq(c, pos + 1, pos + 4))
         IN  IF pos + 12 + n > Len(c)
             THEN [found |-> FALSE, cdata |-> <<>>, crc |-> <<>>]
             ELSE IF SubSeq(c, pos + 5, pos + 8) = ctype
             THEN [found |-> TRUE, cdata |-> SubSeq(c, pos + 9, pos + 8 + n),
                   crc |-> SubSeq(c, pos + 9 + n, pos + 12 + n)]
             ELSE FindChunk(c, pos + 12 + n, ctype)

\* extract(containerBytes) -> metadata | NotFound
extract(c) ==
    LET rec == FindChunk(c, 8, chunk_type)
        z == zlib_decompress(Tail(rec.cdata))
        r == json_loads(z.plain)
        bad(why) == [status |-> why, v |-> PyNone]
    IN  IF Len(c) < 8 \/ SubSeq(c, 1, 8) # PngSignature \/ ~rec.found
        THEN bad("NotFound")
        ELSE IF ReaderCrc32(chunk_type \o rec.cdata) # rec.crc THEN bad("BadChecksum")
        ELSE IF Len(rec.cdata) = 0 \/ rec.cdata[1] # 1 THEN bad("UnknownMethod")
        ELSE IF ~z.ok THEN bad("BadStream")
        ELSE IF ~r.ok THEN bad("BadJson")
        ELSE [status |-> "ok", v |-> r.v]

(***************************************************************************)
(* Bounds of the model.                                                    *)
(***************************************************************************)
\* Header-chunk data of the synthetic containers: up to this many bytes.
MaxHeaderLen == 1
\* Lists and tuples of the generated envelopes: up to this many items.
MaxItems == 2

\* All sequences over S of length 0..n.
RECURSIVE SeqsUpTo(_, _)
SeqsUpTo(S, n) ==
    IF n = 0 THEN {<<>>}
    ELSE LET shorter == SeqsUpTo(S, n - 1)
         IN  shorter \cup {Append(q, x) : q \in {r \in shorter : Len(r) = n - 1}, x \in S}

(***************************************************************************)
(* Containers.  img.save(buffer, format='PNG') writes the signature, IHDR, *)
(* the compressed pixels as IDAT and IEND; the pixel stream is left        *)
(* abstract (any of a few byte strings).                                   *)
(***************************************************************************)
IdatPayloads == {<<>>, <<0>>, <<120, 156, 255>>}

PngEncodings ==
    { PngSignature \o PngChunk(TypeIHDR, IhdrData(WIDTH, HEIGHT))
        \o PngChunk(TypeIDAT, d) \o PngChunk(TypeIEND, <<>>) : d \in IdatPayloads }

\* Well-formed chunk streams with other header chunks, with and without a body.
HeaderDatas == SeqsUpTo({0, 255}, MaxHeaderLen)

SyntheticContainers ==
    { PngSignature \o PngChunk(TypeIHDR, h) \o body \o PngChunk(TypeIEND, <<>>) :
        h \in HeaderDatas, body \in {<<>>, PngChunk(TypeIDAT, <<0>>)} }

MinimalContainer == PngSignature \o PngChunk(TypeIHDR, <<>>) \o PngChunk(TypeIEND, <<>>)

\* Every proper prefix of the minimal container: inputs cut short.
TruncatedContainers ==
    { SubSeq(MinimalContainer, 1, k) : k \in 0..(Len(MinimalContainer) - 1) }

\* A JPEG's first bytes in place of the PNG signature.
JpegStart == <<255, 216, 255, 224, 0, 16, 74, 70>>

WrongSignatureContainers ==
    { JpegStart \o SubSeq(c, 9, Len(c)) : c \in SyntheticContainers \cup PngEncodings }

Containers ==
    PngEncodings \cup SyntheticContainers \cup TruncatedContainers
    \cup WrongSignatureContainers

(***************************************************************************)
(* Metadata handed to embed_aiip_chunk.                                    *)
(***************************************************************************)
K_a == PyStr(<<97>>)  \* "a"

\* {"version": "3.0", "canvas": {"width": 800, "height": 600},
\*  "meta": {"title": "T"}, "data": {}}
E_scenario ==
    PyDict(<<K_version, K_canvas, K_meta, K_data>>,
      << PyStr(<<51, 46, 48>>),
         PyDict(<<K_width, K_height>>, <<PyInt(800), PyInt(600)>>),
         PyDict(<<K_title>>, <<PyStr(<<84>>)>>),
         PyDict(<<>>, <<>>) >>)

\* {"a": 'q"\\', "n": None, "t": True, "f": False}
E_scalars ==
    PyDict(<<K_a, PyStr(<<110>>), PyStr(<<116>>), PyStr(<<102>>)>>,
           <<PyStr(<<113, 34, 92>>), PyNone, PyBool(TRUE), PyBool(FALSE)>>)

E_nan == PyDict(<<K_a>>, <<PyNaN>>)                 \* {"a": float('nan')}
E_inf == PyList(<<PyInf, PyNegInf>>)                \* [inf, -inf]
E_cycle == PyDict(<<K_a>>, <<PyList(<<PyInt(1), PyRef>>)>>)  \* x = [1]; x.append(x); {"a": x}
E_set == PyDict(<<K_a>>, <<PySet>>)                 \* {"a": set()}
E_intkey == PyDict(<<PyInt(1)>>, <<PyStr(<<97>>)>>) \* {1: "a"}
E_tuplekey == PyDict(<<PyTuple(<<>>)>>, <<PyInt(1)>>)  \* {(): 1}

IntItems == SeqsUpTo({PyInt(-1), PyInt(10)}, MaxItems)

Envelopes ==
    {E_scenario, E_scalars, E_nan, E_inf, E_cycle, E_set, E_intkey, E_tuplekey}
    \cup {PyList(q) : q \in IntItems}
    \cup {PyDict(<<K_bounds>>, <<PyTuple(q)>>) : q \in IntItems}

\* Data bytes of a produced chunk are flipped by xor with one of these.
CorruptMasks == {1, 255}

(***************************************************************************)
(* State.                                                                  *)
(***************************************************************************)
VARIABLES
    pc,            \* the statement about to run
    raised_at,     \* where the exception that ended the run was raised
    out,           \* lines printed
    font_large, font_medium, font_small,   \* "unset", "truetype", "default"
    load_failed,   \* the ImageFont.truetype call that raised, if any
    fills,         \* fill_color of the regions drawn so far
    img,           \* create_aiip_image's return value
    png_bytes,     \* embed_aiip_chunk: the encoded image
    data,          \* embed_aiip_chunk: the metadata
    res,           \* embed_aiip_chunk: exception or locals at return
    f_open,        \* the handle f is open
    opened_ever,   \* open() has returned a handle
    disk,          \* sample.aiip on disk
    disk0,         \* sample.aiip before the run
    n_writes,      \* f.write calls that returned
    pending,       \* exception in flight inside the with block
    extracted,     \* what a reader gets from the returned bytes
    corrupted      \* a produced chunk with one data byte changed

renderVars == <<font_large, font_medium, font_small, load_failed, fills, img>>
embedVars == <<png_bytes, data, res>>
fileVars == <<f_open, opened_ever, disk, n_writes, pending>>
readerVars == <<extracted, corrupted>>
vars == <<pc, raised_at, out, renderVars, embedVars, fileVars, disk0, readerVars>>

NoRes == [err |-> "none", json_str |-> <<>>, compressed |-> <<>>,
          chunk |-> <<>>, new_png |-> <<>>]
NoFile == [exists |-> FALSE, bytes |-> <<>>]
OldFile == [exists |-> TRUE, bytes |-> <<111, 108, 100>>]
NotExtracted == [status |-> "none", v |-> PyNone]

Blank ==
    /\ raised_at = "none" /\ out = <<>>
    /\ font_large = "unset" /\ font_medium = "unset" /\ font_small = "unset"
    /\ load_failed = "none" /\ fills = <<>> /\ img = "none"
    /\ res = NoRes
    /\ f_open = FALSE /\ opened_ever = FALSE /\ n_writes = 0 /\ pending = "none"
    /\ extracted = NotExtracted /\ corrupted = <<>>

\* python create-aiip.py: sample.aiip may or may not exist beforehand.
Init ==
    /\ pc = "main"
    /\ Blank
    /\ png_bytes = <<>> /\ data = aiip_data
    /\ disk0 \in {NoFile, OldFile} /\ disk = disk0

(***************************************************************************)
(* main() and create_aiip_image().                                         *)
(***************************************************************************)
Raise(at) == pc' = "raised" /\ raised_at' = at

\* print("Creating AIIP image...")
PrintCreating ==
    /\ pc = "main"
    /\ out' = Append(out, "Creating AIIP image...")
    /\ pc' = "new_image"
    /\ UNCHANGED <<raised_at, renderVars, embedVars, fileVars, disk0, readerVars>>

\* Image.new / ImageDraw.Draw: the allocation succeeds or raises.
NewImage ==
    /\ pc = "new_image"
    /\ \/ pc' = "font_large" /\ UNCHANGED raised_at
       \/ Raise("new_image")
    /\ UNCHANGED <<out, renderVars, embedVars, fileVars, disk0, readerVars>>

\* The fonts all three roles get in the except branch, lines 97-99.
FallbackKeepLoaded(fl, fm, fs) ==
    << IF fl = "unset" THEN "default" ELSE fl,
       IF fm = "unset" THEN "default" ELSE fm,
       IF fs = "unset" THEN "default" ELSE fs >>
Fallback(fl, fm, fs) == <<"default", "default", "default">>

\* One ImageFont.truetype call inside the try block: it returns a font, or
\* raises and control passes to the except branch.
LoadLarge ==
    /\ pc = "font_large"
    /\ \/ font_large' = "truetype" /\ pc' = "font_medium" /\ UNCHANGED load_failed
       \/ load_failed' = "large" /\ pc' = "font_except" /\ UNCHANGED font_large
    /\ UNCHANGED <<raised_at, out, font_medium, font_small, fills, img,
                   embedVars, fileVars, disk0, readerVars>>

LoadMedium ==
    /\ pc = "font_medium"
    /\ \/ font_medium' = "truetype" /\ pc' = "font_small" /\ UNCHANGED load_failed
       \/ load_failed' = "medium" /\ pc' = "font_except" /\ UNCHANGED font_medium
    /\ UNCHANGED <<raised_at, out, font_large, font_small, fills, img,
                   embedVars, fileVars, disk0, readerVars>>

LoadSmall ==
    /\ pc = "font_small"
    /\ \/ font_small' = "truetype" /\ pc' = "draw_title" /\ UNCHANGED load_failed
       \/ load_failed' = "small" /\ pc' = "font_except" /\ UNCHANGED font_small
    /\ UNCHANGED <<raised_at, out, font_large, font_medium, fills, img,
                   embedVars, fileVars, disk0, readerVars>>

\* except: font_large = load_default(); font_medium = font_small = font_large
FontExcept ==
    /\ pc = "font_except"
    /\ LET f == Fallback(font_large, font_medium, font_small)
       IN  font_large' = f[1] /\ font_medium' = f[2] /\ font_small' = f[3]
    /\ pc' = "draw_title"
    /\ UNCHANGED <<raised_at, out, load_failed, fills, img,
                   embedVars, fileVars, disk0, readerVars>>

\* Title and subtitle.
DrawTitle ==
    /\ pc = "draw_title"
    /\ pc' = "draw_region"
    /\ UNCHANGED <<raised_at, out, renderVars, embedVars, fileVars, disk0, readerVars>>

\* One pass of the loop over DATA["regions"]: outline, fill, texts.
DrawRegion ==
    /\ pc = "draw_region"
    /\ Len(fills) < NumRegions
    /\ fills' = Append(fills, fill_color(REGION_COLORS[RegionLevel(Len(fills) + 1)]))
    /\ UNCHANGED <<pc, raised_at, out, font_large, font_medium, font_small,
                   load_failed, img, embedVars, fileVars, disk0, readerVars>>

\* Legend, footer, return img.
DrawLegend ==
    /\ pc = "draw_region"
    /\ Len(fills) = NumRegions
    /\ img' = "image"
    /\ pc' = "embed"
    /\ UNCHANGED <<raised_at, out, font_large, font_medium, font_small,
                   load_failed, fills, embedVars, fileVars, disk0, readerVars>>

\* png_bytes = embed_aiip_chunk(img, aiip_data): the encoder writes some
\* PNG encoding of img, or raises; then lines 169-191.
EmbedMain ==
    /\ pc = "embed"
    /\ \/ \E c \in PngEncodings :
            /\ png_bytes' = c
            /\ res' = embed_aiip_chunk(c, data)
            /\ IF res'.err = "none"
               THEN pc' = "open" /\ UNCHANGED raised_at
               ELSE Raise("embed")
       \/ Raise("embed") /\ UNCHANGED <<png_bytes, res>>
    /\ UNCHANGED <<out, renderVars, data, fileVars, disk0, readerVars>>

\* with open(output_path, 'wb') as f: the file is created or truncated, or
\* open raises and nothing is touched.
OpenFile ==
    /\ pc = "open"
    /\ \/ /\ f_open' = TRUE /\ opened_ever' = TRUE
          /\ disk' = [exists |-> TRUE, bytes |-> <<>>]
          /\ pc' = "write" /\ UNCHANGED raised_at
       \/ Raise("open") /\ UNCHANGED <<f_open, opened_ever, disk>>
    /\ UNCHANGED <<out, renderVars, embedVars, n_writes, pending, disk0, readerVars>>

\* The bytes handed to f.write, line 217.
WrittenBytesUnspliced(r, png) == png
WrittenBytes(r, png) == r.new_png

\* Where control goes when f.write raises inside the with block.
AfterWriteErrorNoExit == "raised"
AfterWriteError == "exit_with"

\* f.write(png_bytes): all the bytes are written, or it raises.
WriteFile ==
    /\ pc = "write"
    /\ \/ /\ disk' = [disk EXCEPT !.bytes = @ \o WrittenBytes(res, png_bytes)]
          /\ n_writes' = n_writes + 1
          /\ pc' = "exit_with"
          /\ UNCHANGED <<pending, raised_at>>
       \/ /\ pending' = "OSError"
          /\ pc' = AfterWriteError
          /\ raised_at' = IF AfterWriteError = "raised" THEN "write" ELSE raised_at
          /\ UNCHANGED <<disk, n_writes>>
    /\ UNCHANGED <<out, renderVars, embedVars, f_open, opened_ever, disk0, readerVars>>

\* Leaving the with block: f is closed; an exception in flight goes on.
ExitWith ==
    /\ pc = "exit_with"
    /\ f_open' = FALSE
    /\ IF pending = "none"
       THEN pc' = "print_created" /\ UNCHANGED raised_at
       ELSE Raise("write")
    /\ UNCHANGED <<out, renderVars, embedVars, opened_ever, disk, n_writes, pending,
                   disk0, readerVars>>

\* print(f"Created: {output_path}") and the lines after it.
PrintCreated ==
    /\ pc = "print_created"
    /\ out' = Append(out, "Created: sample.aiip")
    /\ pc' = "done"
    /\ UNCHANGED <<raised_at, renderVars, embedVars, fileVars, disk0, readerVars>>

Next ==
    \/ PrintCreating \/ NewImage
    \/ LoadLarge \/ LoadMedium \/ LoadSmall \/ FontExcept
    \/ DrawTitle \/ DrawRegion \/ DrawLegend
    \/ EmbedMain
    \/ OpenFile \/ WriteFile \/ ExitWith \/ PrintCreated

Spec == Init /\ [][Next]_vars

(***************************************************************************)
(* embed_aiip_chunk on its own: any container bytes, any metadata.         *)
(***************************************************************************)
InitEmbed ==
    /\ pc = "call_embed"
    /\ Blank
    /\ \/ png_bytes \in Containers /\ data \in Envelopes
       \/ png_bytes \in PngEncodings /\ data = aiip_data
    /\ disk0 = NoFile /\ disk = disk0

\* Lines 169-191 on the given bytes and metadata.
EmbedCall ==
    /\ pc = "call_embed"
    /\ res' = embed_aiip_chunk(png_bytes, data)
    /\ IF res'.err = "none" THEN pc' = "returned" /\ UNCHANGED raised_at
       ELSE Raise("embed")
    /\ UNCHANGED <<out, renderVars, png_bytes, data, fileVars, disk0, readerVars>>

\* A reader extracts the metadata from the returned bytes.
Extract ==
    /\ pc = "returned"
    /\ extracted' = extract(res.new_png)
    /\ pc' = "extracted"
    /\ UNCHANGED <<raised_at, out, renderVars, embedVars, fileVars, disk0, corrupted>>

\* One data byte of the produced chunk is changed.  Only the chunk is kept:
\* the check that follows reads nothing else.
Corrupt ==
    /\ pc = "returned"
    /\ \E i \in 9..(Len(res.chunk) - 4), m \in CorruptMasks :
          corrupted' = [res.chunk EXCEPT ![i] = XorByte(@, m)]
    /\ pc' = "corrupted"
    /\ png_bytes' = <<>> /\ data' = PyNone
    /\ res' = [NoRes EXCEPT !.chunk = res.chunk]
    /\ UNCHANGED <<raised_at, out, renderVars, fileVars, disk0, extracted>>

NextEmbed == EmbedCall \/ Extract \/ Corrupt

SpecEmbed == InitEmbed /\ [][NextEmbed]_vars

(***************************************************************************)
(* Helpers of the properties.                                              *)
(***************************************************************************)
\* v, one of its items or one of its keys (at any depth) has a type in ts.
RECURSIVE Mentions(_, _)
Mentions(v, ts) ==
    \/ v.t \in ts
    \/ \E i \in 1..Len(v.items) : Mentions(v.items[i], ts)
    \/ \E i \in 1..Len(v.keys) : Mentions(v.keys[i], ts)

\* Some mapping in v has a key that is not text.
RECURSIVE HasNonTextKey(_)
HasNonTextKey(v) ==
    \/ \E i \in 1..Len(v.keys) : v.keys[i].t # "str"
    \/ \E i \in 1..Len(v.items) : HasNonTextKey(v.items[i])

\* Some mapping in v has a key that is a container.
RECURSIVE HasContainerKey(_)
HasContainerKey(v) ==
    \/ \E i \in 1..Len(v.keys) : v.keys[i].t \in {"list", "tuple", "dict", "set", "ref"}
    \/ \E i \in 1..Len(v.items) : HasContainerKey(v.items[i])

\* v as a JSON document holds it: a tuple is an array, a key is text.
RECURSIVE AsJson(_)
AsJson(v) ==
    CASE v.t \in {"list", "tuple"} ->
            PyList([i \in 1..Len(v.items) |-> AsJson(v.items[i])])
      [] v.t = "dict" ->
            PyDict([i \in 1..Len(v.keys) |->
                       IF v.keys[i].t = "str" THEN v.keys[i]
                       ELSE PyStr(ScalarText(v.keys[i]))],
                   [i \in 1..Len(v.items) |-> AsJson(v.items[i])])
      [] OTHER -> v

Last4(b) == SubSeq(b, Len(b) - 3, Len(b))

EmbedReturned == pc \in {"returned", "extracted"}
EmbedCalled == pc \in {"returned", "extracted", "raised"}

\* 10 * x is within 5 of 3 * fg + 7 * bg: x is fg*0.3 + bg*0.7 rounded to a
\* nearest integer, whichever way a tie goes.
IsNearestBlend(x, fg, bg) == (10 * x - (3 * fg + 7 * bg)) \in -5..5

(***************************************************************************)
(* Properties.                                                             *)
(***************************************************************************)
\* C1: for a valid container C the returned bytes are C[0..p) ++ chunk ++
\* C[p..end) with p = 8 + 4 + 4 + L + 4 and L the big-endian length in bytes
\* 8..11 of C; the chunk follows the whole header-chunk record, and taking
\* the chunk's bytes out again gives C byte for byte.
C1_NonDestructiveSplice ==
    (EmbedReturned /\ IsValidContainer(png_bytes)) =>
        LET C == png_bytes
            L == struct_unpack_I(SubSeq(C, 9, 12))
            p == 8 + 4 + 4 + L + 4
            new == res.new_png
            k == Len(res.chunk)
        IN  /\ k > 0 /\ p <= Len(C)
            /\ new = SubSeq(C, 1, p) \o res.chunk \o SubSeq(C, p + 1, Len(C))
            /\ SubSeq(new, p + 1, p + k) = res.chunk
            /\ SubSeq(new, 1, p) \o SubSeq(new, p + k + 1, Len(new)) = C

\* C1 witness: a returned call on a container with a 13-byte header chunk
\* and chunks after it.
C1_Witness ==
    /\ pc = "returned" /\ IsValidContainer(png_bytes)
    /\ struct_unpack_I(SubSeq(png_bytes, 9, 12)) = 13
    /\ Len(png_bytes) > 33
    /\ Len(res.new_png) = Len(png_bytes) + Len(res.chunk)

\* C2: the chunk's 4-byte big-endian length field is 1 + len(compressed),
\* which is the number of bytes between the type field and the checksum
\* field (the tag byte and the compressed payload).
C2_LengthField ==
    (res.chunk # <<>> /\ pc # "corrupted") =>
        /\ struct_unpack_I(SubSeq(res.chunk, 1, 4)) = 1 + Len(res.compressed)
        /\ struct_unpack_I(SubSeq(res.chunk, 1, 4)) = Len(res.chunk) - 4 - 4 - 4
        /\ SubSeq(res.chunk, 5, 8) = chunk_type
        /\ SubSeq(res.chunk, 9, Len(res.chunk) - 4) = <<1>> \o res.compressed

\* C2 witness: the chunk built for main()'s envelope.
C2_Witness ==
    /\ pc = "returned" /\ data = aiip_data
    /\ Len(res.compressed) > 256
    /\ struct_unpack_I(SubSeq(res.chunk, 1, 4)) = 1 + Len(res.compressed)

\* C3: the chunk's last 4 bytes are the big-endian CRC-32 of type ++ tag byte
\* ++ compressed payload (length field excluded), and after a change of any
\* one data byte the CRC recomputed over type ++ data differs from the
\* stored checksum.
C3_Checksum ==
    /\ (res.chunk # <<>> /\ pc # "corrupted") =>
          Last4(res.chunk) = ReaderCrc32(chunk_type \o <<1>> \o res.compressed)
    /\ pc = "corrupted" =>
          /\ corrupted # res.chunk
          /\ Last4(corrupted) = Last4(res.chunk)
          /\ zlib_crc32(SubSeq(corrupted, 5, Len(corrupted) - 4)) # Last4(corrupted)

\* C3 witness: a chunk with one payload byte changed and the stored
\* checksum left as written.
C3_Witness ==
    /\ pc = "corrupted"
    /\ \E i \in 10..(Len(corrupted) - 4) : corrupted[i] # res.chunk[i]
    /\ Last4(corrupted) = Last4(res.chunk)

C5_RoundTrip ==
    (pc = "extracted" /\ IsValidContainer(png_bytes)
       /\ ~Mentions(data, NonFiniteTypes \cup {"ref", "set"}) /\ ~HasNonTextKey(data)) =>
        (extracted.status = "ok" /\ extracted.v = data)

\* C5 amended: what is read back is the metadata as JSON holds it: equal to
\* the metadata when it has no tuple and only text keys; a tuple comes back
\* as a list (a scalar key as text) because the text json.dumps writes for
\* it is the text of the list, so main()'s envelope comes back with each
\* bounds tuple as a list and is not equal to what was embedded.
C5_RoundTripAsJson ==
    (pc = "extracted" /\ IsValidContainer(png_bytes)) =>
        /\ extracted.status = "ok"
        /\ extracted.v = AsJson(data)
        /\ res.json_str = json_dumps(AsJson(data))
        /\ (~Mentions(data, {"tuple"}) /\ ~HasNonTextKey(data)) => extracted.v = data
        /\ Mentions(data, {"tuple"}) => extracted.v # data
        /\ data = aiip_data =>
              /\ extracted.v # data
              /\ \A r \in 1..NumRegions :
                    extracted.v.items[4].items[2].items[r].items[5]
                        = PyList(DATA.items[2].items[r].items[5].items)

\* C5 witness: main()'s envelope read back, with lists where the tuples were.
C5_Witness ==
    /\ pc = "extracted" /\ data = aiip_data
    /\ extracted.status = "ok"
    /\ extracted.v.items[4].items[2].items[1].items[5].t = "list"
    /\ data.items[4].items[2].items[1].items[5].t = "tuple"

\* C6 as claimed: metadata with a non-finite number or a cyclic reference
\* makes the call fail, and no chunk and no output are produced.
C6_RejectsUnrepresentable ==
    (EmbedCalled /\ Mentions(data, NonFiniteTypes \cup {"ref"})) =>
        (pc = "raised" /\ res.chunk = <<>> /\ res.new_png = <<>>)

\* C6 amended: the call fails in json.dumps, before any chunk is built,
\* exactly for a cyclic reference (ValueError) or a type or mapping key
\* the encoder has no rule for (TypeError); NaN and the infinities are
\* encoded and the chunk is built as for any other number.
C6_SerializationErrors ==
    EmbedCalled =>
        LET cyclic == Mentions(data, {"ref"})
            untyped == Mentions(data, {"set"}) \/ HasContainerKey(data)
        IN  /\ (cyclic \/ untyped) <=> res.err \in {"ValueError", "TypeError"}
            /\ (cyclic /\ ~untyped) => res.err = "ValueError"
            /\ (untyped /\ ~cyclic) => res.err = "TypeError"
            /\ res.err \in {"ValueError", "TypeError"} =>
                  /\ pc = "raised"
                  /\ res.json_str = <<>> /\ res.compressed = <<>>
                  /\ res.chunk = <<>> /\ res.new_png = <<>>
            /\ (Mentions(data, NonFiniteTypes) /\ ~cyclic /\ ~untyped) =>
                  /\ res.chunk # <<>>
                  /\ Len(png_bytes) >= 12 => (pc # "raised" /\ res.new_png # <<>>)

\* C6 witness: a returned call whose metadata holds NaN.
C6_Witness ==
    /\ pc = "returned" /\ Mentions(data, {"nan"})
    /\ res.chunk # <<>> /\ res.new_png # <<>>

\* C7: font selection raises nothing; when any of the three truetype loads
\* failed, all three roles hold the default font, none the preferred one,
\* and create_aiip_image goes on to return the image.
C7_FontFallback ==
    /\ raised_at \notin {"font_large", "font_medium", "font_small", "font_except"}
    /\ pc = "font_except" => load_failed # "none"
    /\ pc \in {"draw_title", "draw_region", "embed", "open", "write", "exit_with",
               "print_created", "done"} =>
          IF load_failed # "none"
          THEN font_large = "default" /\ font_medium = "default" /\ font_small = "default"
          ELSE font_large = "truetype" /\ font_medium = "truetype"
               /\ font_small = "truetype"
    /\ pc \in {"embed", "open", "write", "exit_with", "print_created", "done"} =>
          img = "image"

\* C7 witness: the medium load failed after the large one succeeded, and
\* the image was returned with the default font in all three roles.
C7_Witness ==
    /\ load_failed = "medium" /\ img = "image"
    /\ font_large = "default" /\ font_medium = "default" /\ font_small = "default"

\* C8: once the handle is open, it is closed before "Created:" is printed
\* and before a failure of the write leaves main().
C8_ClosedBeforeReport ==
    /\ pc \in {"print_created", "done", "raised"} => ~f_open
    /\ Len(out) > 1 => ~f_open
    /\ f_open => pc \in {"write", "exit_with"}

\* C8 witness: the write raised, and the run ended with the handle closed.
C8_Witness ==
    /\ pc = "raised" /\ raised_at = "write" /\ pending = "OSError"
    /\ opened_ever /\ ~f_open

\* C9 as claimed: each channel of a region's fill colour is
\* fg*0.3 + bg*0.7 rounded to a nearest integer, fg and bg the same channel
\* of the severity colour and of the background colour, and lies in 0..255.
C9_FillBlendsSameChannel ==
    \A k \in 1..Len(fills) : \A ch \in 1..3 :
        /\ fills[k][ch] \in 0..255
        /\ IsNearestBlend(fills[k][ch],
                          HexPair(REGION_COLORS[RegionLevel(k)], 2 * ch - 1),
                          HexPair(BG_COLOR, 2 * ch - 1))

\* C10: the file is opened only after rendering and embedding have
\* returned; a run in which either raised leaves the file as it was; the
\* file is written at most once, with exactly the bytes embed returned.
C10_WriteAfterEmbed ==
    /\ opened_ever =>
          /\ img = "image" /\ res.err = "none" /\ res.new_png # <<>>
          /\ raised_at \notin {"new_image", "embed"}
    /\ raised_at \in {"new_image", "embed"} =>
          (~opened_ever /\ disk = disk0 /\ n_writes = 0)
    /\ ~opened_ever => disk = disk0
    /\ n_writes <= 1
    /\ n_writes = 1 => disk = [exists |-> TRUE, bytes |-> res.new_png]
    /\ pc = "done" => n_writes = 1

\* C10 witness: a finished run over an older sample.aiip.
C10_Witness ==
    /\ pc = "done" /\ disk0 = OldFile /\ n_writes = 1
    /\ disk.bytes = res.new_png /\ Len(disk.bytes) > Len(png_bytes)
====
